---- MODULE Spec2Model ----
(***************************************************************************)
(* A model of batl (frqubit/batl): the resource-name codec                 *)
(* (packages/batl/src/resource.rs) and the repository resolver             *)
(* (packages/batl/src/resource/repository.rs, packages/batl/src/commands.rs)*)
(*                                                                         *)
(* Text is a sequence of one-character strings; a filesystem path is a     *)
(* sequence of components, each component a text.  Option<T> is a sequence *)
(* of length 0 (None) or 1 (Some).                                         *)
(***************************************************************************)
EXTENDS Integers, Sequences, FiniteSets, TLC

VARIABLES
    cdc,        \* codec harness: the last codec call and what it returned
    dirs,       \* the directories that exist below the battalion root
    configs,    \* batl.toml of every repository directory: path -> Config
    cwd,        \* the working directory of the process, a path
    req,        \* the Name last handed to Repository::load: Option<Name>
    res,        \* what that call returned
    ignores,    \* .gitignore of every repository that has one: path -> text
    symlinks,   \* the directory symlinks on disk: link path -> target path
    call        \* the last dependency or link command and how it ended

vars == <<cdc, dirs, configs, cwd, req, res, ignores, symlinks, call>>

(***************************************************************************)
(* Bounds                                                                  *)
(***************************************************************************)
MaxTextLen == 3     \* length of the free part of a text handed to Name::new
MaxRepos == 3       \* repositories stored on disk at the same time
MaxDeps == 1        \* dependency entries a consumer's batl.toml may hold

(***************************************************************************)
(* Option and Result                                                       *)
(***************************************************************************)
None == <<>>
Some(x) == <<x>>
IsSome(o) == Len(o) = 1
Unwrap(o) == o[1]

Ok(v) == [ok |-> TRUE, val |-> v, err |-> "none"]
Err(e) == [ok |-> FALSE, val |-> <<>>, err |-> e]

(***************************************************************************)
(* Characters                                                              *)
(***************************************************************************)
Digits == <<"0", "1", "2", "3", "4", "5", "6", "7", "8", "9">>
DigitSet == {Digits[i] : i \in 1..10}
AsciiLetters == {"a", "b", "x"}
\* a letter outside ASCII; char::is_alphanumeric is Unicode-aware
UnicodeLetters == {"U+00E9"}

\* char::is_alphanumeric
is_alphanumeric(c) == c \in AsciiLetters \cup UnicodeLetters \cup DigitSet
\* char::is_ascii_alphanumeric
is_ascii_alphanumeric(c) == c \in AsciiLetters \cup DigitSet

(***************************************************************************)
(* Text helpers (std::str)                                                 *)
(***************************************************************************)
RECURSIVE IndexOfFrom(_, _, _)
\* position of the first c in s at or after i, 0 when there is none
IndexOfFrom(s, c, i) ==
    IF i > Len(s) THEN 0
    ELSE IF s[i] = c THEN i
    ELSE IndexOfFrom(s, c, i + 1)

IndexOf(s, c) == IndexOfFrom(s, c, 1)

RECURSIVE SplitOn(_, _)
\* str::split(c): the pieces between the separators, empty pieces included
SplitOn(s, c) ==
    LET p == IndexOf(s, c) IN
    IF p = 0 THEN <<s>>
    ELSE <<SubSeq(s, 1, p - 1)>> \o SplitOn(SubSeq(s, p + 1, Len(s)), c)

RECURSIVE JoinWith(_, _)
\* [String]::join(sep)
JoinWith(parts, sep) ==
    IF Len(parts) = 0 THEN <<>>
    ELSE IF Len(parts) = 1 THEN parts[1]
    ELSE parts[1] \o sep \o JoinWith(Tail(parts), sep)

StartsWith(s, p) == Len(s) >= Len(p) /\ SubSeq(s, 1, Len(p)) = p

\* str::strip_prefix: Some(rest) or None
strip_prefix(s, p) ==
    IF StartsWith(s, p) THEN Some(SubSeq(s, Len(p) + 1, Len(s))) ELSE None

RECURSIVE ReplacePlus(_)
\* str::replace('+', "__")
ReplacePlus(s) ==
    IF s = <<>> THEN <<>>
    ELSE IF Head(s) = "+" THEN <<"_", "_">> \o ReplacePlus(Tail(s))
    ELSE <<Head(s)>> \o ReplacePlus(Tail(s))

RECURSIVE ReplaceUnderscores(_)
\* str::replace("__", "+"): non-overlapping matches, left to right
ReplaceUnderscores(s) ==
    IF s = <<>> THEN <<>>
    ELSE IF StartsWith(s, <<"_", "_">>)
         THEN <<"+">> \o ReplaceUnderscores(SubSeq(s, 3, Len(s)))
    ELSE <<Head(s)>> \o ReplaceUnderscores(Tail(s))

(***************************************************************************)
(* semver::Version  (crate semver, used by resource.rs and repository.rs)  *)
(***************************************************************************)
Version(major, minor, patch, pre, build) ==
    [major |-> major, minor |-> minor, patch |-> patch, pre |-> pre, build |-> build]

\* Version::new
VersionNew(major, minor, patch) == Version(major, minor, patch, <<>>, <<>>)

RECURSIVE NumToText(_)
NumToText(n) ==
    IF n < 10 THEN <<Digits[n + 1]>>
    ELSE NumToText(n \div 10) \o <<Digits[(n % 10) + 1]>>

DigitValue(c) == CHOOSE d \in 0..9 : Digits[d + 1] = c

RECURSIVE TextToNum(_)
TextToNum(s) ==
    IF Len(s) = 1 THEN DigitValue(s[1])
    ELSE 10 * TextToNum(SubSeq(s, 1, Len(s) - 1)) + DigitValue(s[Len(s)])

\* a numeric identifier: digits, no leading zero
IsNumeric(s) ==
    /\ Len(s) >= 1
    /\ \A i \in 1..Len(s) : s[i] \in DigitSet
    /\ (Len(s) > 1 => s[1] # "0")

\* one dot-separated identifier of a pre-release or of build metadata
IsIdentChar(c) == is_ascii_alphanumeric(c) \/ c = "-"
IsIdent(s) == Len(s) >= 1 /\ \A i \in 1..Len(s) : IsIdentChar(s[i])
AllDigits(s) == \A i \in 1..Len(s) : s[i] \in DigitSet

IsBuild(s) == \A p \in {SplitOn(s, ".")[i] : i \in 1..Len(SplitOn(s, "."))} : IsIdent(p)
IsPre(s) ==
    \A p \in {SplitOn(s, ".")[i] : i \in 1..Len(SplitOn(s, "."))} :
        IsIdent(p) /\ (AllDigits(p) => IsNumeric(p))

\* Display for Version
VersionToString(v) ==
    NumToText(v.major) \o <<".">> \o NumToText(v.minor) \o <<".">> \o NumToText(v.patch)
    \o (IF v.pre = <<>> THEN <<>> ELSE <<"-">> \o v.pre)
    \o (IF v.build = <<>> THEN <<>> ELSE <<"+">> \o v.build)

\* Version::parse: MAJOR.MINOR.PATCH[-PRE][+BUILD]
VersionParse(s) ==
    LET plus == IndexOf(s, "+")
        noBuild == IF plus = 0 THEN s ELSE SubSeq(s, 1, plus - 1)
        build == IF plus = 0 THEN <<>> ELSE SubSeq(s, plus + 1, Len(s))
        dash == IndexOf(noBuild, "-")
        core == IF dash = 0 THEN noBuild ELSE SubSeq(noBuild, 1, dash - 1)
        pre == IF dash = 0 THEN <<>> ELSE SubSeq(noBuild, dash + 1, Len(noBuild))
        nums == SplitOn(core, ".")
    IN  IF /\ Len(nums) = 3
           /\ \A i \in 1..3 : IsNumeric(nums[i])
           /\ (dash # 0 => IsPre(pre))
           /\ (plus # 0 => IsBuild(build))
        THEN Ok(Version(TextToNum(nums[1]), TextToNum(nums[2]), TextToNum(nums[3]),
                        pre, build))
        ELSE Err("semver")

RECURSIVE TextLess(_, _)
\* str::cmp on ASCII text, by the position of the characters in the ASCII table
CharRank(c) ==
    CASE c = "-" -> 0
      [] c = "." -> 1
      [] c \in DigitSet -> 2 + DigitValue(c)
      [] c = "a" -> 20
      [] c = "b" -> 21
      [] c = "x" -> 22
      [] OTHER -> 30
TextLess(s, t) ==
    IF t = <<>> THEN FALSE
    ELSE IF s = <<>> THEN TRUE
    ELSE IF Head(s) # Head(t) THEN CharRank(Head(s)) < CharRank(Head(t))
    ELSE TextLess(Tail(s), Tail(t))

\* Ord for Version: major, minor, patch, then pre-release (a release is greater
\* than any of its pre-releases), then build metadata
VersionLess(v, w) ==
    IF v.major # w.major THEN v.major < w.major
    ELSE IF v.minor # w.minor THEN v.minor < w.minor
    ELSE IF v.patch # w.patch THEN v.patch < w.patch
    ELSE IF v.pre # w.pre THEN
        IF v.pre = <<>> THEN FALSE
        ELSE IF w.pre = <<>> THEN TRUE
        ELSE TextLess(v.pre, w.pre)
    ELSE TextLess(v.build, w.build)

(***************************************************************************)
(* Name  (resource.rs)                                                     *)
(***************************************************************************)
Name(segments, version) == [segments |-> segments, version |-> version]

with_version(name, version) == Name(name.segments, Some(version))
without_version(name) == Name(name.segments, None)

RECURSIVE NameNewLoop(_, _, _, _, _, _)
NameNewLoop(val, i, next, segments, version, doing_version) ==
    IF i > Len(val) THEN
        IF next = <<>> THEN Err("InvalidName")
        ELSE IF version = <<>> THEN Ok(Name(Append(segments, next), None))
        ELSE LET versioned(parsed) ==
                    IF parsed.ok THEN Ok(Name(Append(segments, next), Some(parsed.val)))
                    ELSE Err(parsed.err)
             IN  versioned(VersionParse(version))
    ELSE LET c == val[i] IN
        IF doing_version THEN
            NameNewLoop(val, i + 1, next, segments, Append(version, c), TRUE)
        ELSE IF c = "@" THEN
            NameNewLoop(val, i + 1, next, segments, version, TRUE)
        ELSE IF next = <<>> /\ c = "_" THEN Err("InvalidName")
        ELSE IF c = "." THEN
            IF next = <<>> THEN Err("InvalidName")
            ELSE NameNewLoop(val, i + 1, <<>>, Append(segments, next), version, FALSE)
        ELSE IF is_alphanumeric(c) \/ c = "-" \/ c = "_" THEN
            NameNewLoop(val, i + 1, Append(next, c), segments, version, FALSE)
        ELSE Err("InvalidName")

\* Name::new
NameNew(val) == NameNewLoop(val, 1, <<>>, <<>>, <<>>, FALSE)

\* Display for Name
NameToString(name) ==
    JoinWith(name.segments, <<".">>)
    \o (IF IsSome(name.version)
        THEN <<"@">> \o VersionToString(Unwrap(name.version)) ELSE <<>>)

\* the components "_<part>" of every segment but the last
parts_without_end(name) ==
    [i \in 1..(Len(name.segments) - 1) |-> <<"_">> \o name.segments[i]]

last(name) == name.segments[Len(name.segments)]

\* Name::path_segments_as_version_folder
path_segments_as_version_folder(name) ==
    Append(parts_without_end(name), <<"_", "_">> \o last(name))

\* path_segments_as_repository_name without the escape of '+' in the version
path_segments_as_repository_name_noescape(name) ==
    IF IsSome(name.version)
    THEN parts_without_end(name)
         \o << <<"_", "_">> \o last(name), VersionToString(Unwrap(name.version)) >>
    ELSE Append(parts_without_end(name), last(name))

\* Name::path_segments_as_repository_name
path_segments_as_repository_name(name) ==
    IF IsSome(name.version)
    THEN parts_without_end(name)
         \o << <<"_", "_">> \o last(name),
               ReplacePlus(VersionToString(Unwrap(name.version))) >>
    ELSE Append(parts_without_end(name), last(name))

\* url_path_segments writing the segments the way the path encodings do
url_path_segments_prefixed(name) ==
    JoinWith([i \in 1..Len(name.segments) |-> <<"_">> \o name.segments[i]], <<"/">>)
    \o (IF IsSome(name.version)
        THEN <<"/", "_", "v">> \o ReplacePlus(VersionToString(Unwrap(name.version)))
        ELSE <<>>)

\* Name::url_path_segments
url_path_segments(name) ==
    JoinWith(name.segments, <<"/">>)
    \o (IF IsSome(name.version)
        THEN <<"/", "_", "v">> \o ReplacePlus(VersionToString(Unwrap(name.version)))
        ELSE <<>>)

(***************************************************************************)
(* Paths  (std::path) and the storage roots (crate::system)                *)
(***************************************************************************)
RootDir == <<"/">>
is_absolute(path) == Len(path) >= 1 /\ path[1] = RootDir

batl_root == <<RootDir, <<"battalion">> >>
repository_root == Append(batl_root, <<"repositories">>)
fetched_repository_root == batl_root \o << <<"gen">>, <<"fetched">> >>

IsPrefix(base, path) == Len(base) <= Len(path) /\ SubSeq(path, 1, Len(base)) = base

\* Path::strip_prefix, component-wise
path_strip_prefix(path, base) ==
    IF IsPrefix(base, path) THEN Ok(SubSeq(path, Len(base) + 1, Len(path)))
    ELSE Err("StripPrefixError")

\* Path::parent
parent(path) == SubSeq(path, 1, Len(path) - 1)

RECURSIVE FromPathLoop(_, _, _, _, _)
\* the component loop of Name::from_absolute_path: Ok(<<segments, version>>)
FromPathLoop(subpath, i, segments, version, doing_version) ==
    IF i > Len(subpath) THEN Ok(<<segments, version>>)
    ELSE LET component == subpath[i] IN
        IF doing_version /\ version = None THEN
            LET continue(parsed) ==
                    IF parsed.ok
                    THEN FromPathLoop(subpath, i + 1, segments, Some(parsed.val),
                                      doing_version)
                    ELSE Err(parsed.err)
            IN  continue(VersionParse(ReplaceUnderscores(component)))
        ELSE IF doing_version /\ IsSome(version) THEN Err("InvalidName")
        ELSE IF IsSome(strip_prefix(component, <<"_", "_">>)) THEN
            FromPathLoop(subpath, i + 1,
                         Append(segments, Unwrap(strip_prefix(component, <<"_", "_">>))),
                         version, TRUE)
        ELSE IF IsSome(strip_prefix(component, <<"_">>)) THEN
            FromPathLoop(subpath, i + 1,
                         Append(segments, Unwrap(strip_prefix(component, <<"_">>))),
                         version, doing_version)
        ELSE FromPathLoop(subpath, i + 1, segments, version, doing_version)

\* the second `let segments` of Name::from_absolute_path, which shadows the
\* segments collected by the loop: every component, one leading '_' stripped
FromPathSegments(subpath) ==
    [i \in 1..Len(subpath) |->
        IF IsSome(strip_prefix(subpath[i], <<"_">>))
        THEN Unwrap(strip_prefix(subpath[i], <<"_">>))
        ELSE subpath[i]]

\* Name::from_absolute_path
from_absolute_path(value) ==
    IF ~is_absolute(value) THEN Err("InvalidName")
    ELSE LET subpath ==
                IF path_strip_prefix(value, repository_root).ok
                THEN path_strip_prefix(value, repository_root)
                ELSE path_strip_prefix(value, fetched_repository_root)
             named(looped) ==
                IF looped.ok
                THEN Ok(Name(FromPathSegments(subpath.val), looped.val[2]))
                ELSE Err(looped.err)
         IN  IF subpath.ok
             THEN named(FromPathLoop(subpath.val, 1, <<>>, None, FALSE))
             ELSE Err("InvalidName")

(***************************************************************************)
(* Inputs of the codec                                                     *)
(***************************************************************************)
RECURSIVE TextsUpTo(_, _)
\* every text over chars of length at most n
TextsUpTo(chars, n) ==
    IF n = 0 THEN {<<>>}
    ELSE LET shorter == TextsUpTo(chars, n - 1) IN
         shorter \cup {Append(t, c) : t \in shorter, c \in chars}

MaxSegLen == 2      \* characters in one segment of a generated Name
MaxSegs == 2        \* segments in a generated Name

SegChars == {"a", "_", "-"}
\* the segments the grammar of Name allows: [A-Za-z0-9_-]+, no leading '_'
ValidSegments == {s \in TextsUpTo(SegChars, MaxSegLen) : s # <<>> /\ s[1] # "_"}
ValidSegmentSeqs == UNION {[1..n -> ValidSegments] : n \in 1..MaxSegs}

CodecVersions ==
    { VersionNew(1, 2, 3),
      Version(1, 0, 0, <<>>, <<"b">>),
      Version(2, 10, 0, <<"a">>, <<"b", ".", "1">>) }
CodecNames ==
    {Name(s, v) : s \in ValidSegmentSeqs, v \in {None} \cup {Some(w) : w \in CodecVersions}}

TextChars == {"a", "b", "_", "-", ".", "@", "!", "U+00E9"}
VersionTexts ==
    { <<"1", ".", "2", ".", "3">>,
      <<"1", ".", "0", ".", "0", "+", "b">>,
      <<"1", ".", "2">>,
      <<"0", "1", ".", "0", ".", "0">>,
      <<"n", "o", "t", "-", "a", "-", "v", "e", "r", "s", "i", "o", "n">> }
NameTexts ==
    {h \o t : h \in TextsUpTo(TextChars, MaxTextLen),
              t \in {<<>>} \cup {<<"@">> \o v : v \in VersionTexts}}

(***************************************************************************)
(* The generations of batl.toml and their migration to Config              *)
(* (resource/repository.rs, CONFIG VERSIONS).  A TomlConfig is a record of *)
(* its fields, an absent table being None.  The environment table is       *)
(* written as the generation whose default it is; the tables of the        *)
(* repository are carried as they are by every hop.                        *)
(***************************************************************************)
\* Option::unwrap_or_default for a HashMap
unwrap_or_default(option) == IF IsSome(option) THEN Unwrap(option) ELSE <<>>

\* From<TomlConfig0_2_0> for TomlConfig0_2_2
TomlConfig0_2_2_from_0_2_0(value) ==
    [environment |-> "0.2.2",
     repository |-> [name |-> value.repository.name,
                     version |-> value.repository.version,
                     git |-> value.repository.git],
     scripts |-> value.scripts,
     dependencies |-> value.dependencies,
     restrict |-> None]

\* From<TomlConfig0_2_1> for TomlConfig0_2_2
TomlConfig0_2_2_from_0_2_1(value) ==
    [environment |-> "0.2.2",
     repository |-> [name |-> value.repository.name,
                     version |-> value.repository.version,
                     git |-> value.repository.git],
     scripts |-> value.scripts,
     dependencies |-> value.dependencies,
     restrict |-> None]

\* From<TomlConfig0_2_2> for TomlConfigLatest keeping the links of a document
\* that has none to keep: the dependency names read as link names
TomlConfigLatest_from_0_2_2_linking(value) ==
    LET parsed(deps) ==
            [k \in DOMAIN deps |->
                IF VersionParse(deps[k]).ok THEN VersionParse(deps[k]).val
                ELSE VersionNew(0, 0, 0)]
    IN  [environment |-> "0.3.0",
         repository |-> value.repository,
         scripts |-> value.scripts,
         dependencies |-> IF IsSome(value.dependencies)
                          THEN Some(parsed(Unwrap(value.dependencies)))
                          ELSE None,
         links |-> value.dependencies,
         restrict |-> value.restrict]

\* From<TomlConfig0_2_2> for TomlConfigLatest leaving out the dependencies
\* whose version does not parse
TomlConfigLatest_from_0_2_2_dropping(value) ==
    LET parsed(deps) ==
            [k \in {j \in DOMAIN deps : VersionParse(deps[j]).ok} |->
                VersionParse(deps[k]).val]
    IN  [environment |-> "0.3.0",
         repository |-> value.repository,
         scripts |-> value.scripts,
         dependencies |-> IF IsSome(value.dependencies)
                          THEN Some(parsed(Unwrap(value.dependencies)))
                          ELSE None,
         links |-> None,
         restrict |-> value.restrict]

\* From<TomlConfig0_2_2> for TomlConfigLatest
TomlConfigLatest_from_0_2_2(value) ==
    LET parsed(deps) ==
            [k \in DOMAIN deps |->
                IF VersionParse(deps[k]).ok THEN VersionParse(deps[k]).val
                ELSE VersionNew(0, 0, 0)]
    IN  [environment |-> "0.3.0",
         repository |-> value.repository,
         scripts |-> value.scripts,
         dependencies |-> IF IsSome(value.dependencies)
                          THEN Some(parsed(Unwrap(value.dependencies)))
                          ELSE None,
         links |-> None,
         restrict |-> value.restrict]

\* From<AnyTomlConfig> for TomlConfigLatest
TomlConfigLatest_from_any(value) ==
    CASE value.variant = "V0_2_0" ->
            TomlConfigLatest_from_0_2_2(TomlConfig0_2_2_from_0_2_0(value.toml))
      [] value.variant = "V0_2_1" ->
            TomlConfigLatest_from_0_2_2(TomlConfig0_2_2_from_0_2_1(value.toml))
      [] value.variant = "V0_2_2" -> TomlConfigLatest_from_0_2_2(value.toml)
      [] value.variant = "V0_3_0" -> value.toml

\* From<TomlConfigLatest> for Config, every field of Config; the entries of
\* the restriction table are kept under their keys (their conversion to
\* Condition and RestrictSettings is field by field)
Config_from_latest(value) ==
    [name |-> value.repository.name,
     version |-> value.repository.version,
     git |-> value.repository.git,
     scripts |-> unwrap_or_default(value.scripts),
     dependencies |-> unwrap_or_default(value.dependencies),
     links |-> unwrap_or_default(value.links),
     restrict |-> unwrap_or_default(value.restrict)]

\* the documents migrated: every generation, each optional table absent,
\* empty and filled, a dependency version that parses and one that does not
TomlDocuments ==
    LET repository ==
            [name |-> Name(<<<<"a">>>>, None), version |-> VersionNew(1, 2, 3),
             git |-> None]
        b == Name(<<<<"b">>>>, None)
        scripts == {None, Some(<<"b">> :> <<"a">>)}
        x == Name(<<<<"x">>>>, None)
        dependencies ==
            {None, Some(<<>>)}
            \cup {Some(b :> text) : text \in VersionTexts}
            \cup {Some((b :> text) @@ (x :> other)) : text, other \in VersionTexts}
        restricts == {None, Some(<<>>), Some("windows" :> "deny")}
        links == {None, Some(b :> <<RootDir, <<"l">>>>)}
    IN  {[variant |-> v,
          toml |-> [environment |-> e, repository |-> repository,
                    scripts |-> s, dependencies |-> d]] :
            v \in {"V0_2_0"}, e \in {"0.2.0"}, s \in scripts, d \in dependencies}
        \cup
        {[variant |-> v,
          toml |-> [environment |-> e, repository |-> repository,
                    scripts |-> s, dependencies |-> d]] :
            v \in {"V0_2_1"}, e \in {"0.2.1"}, s \in scripts, d \in dependencies}
        \cup
        {[variant |-> v,
          toml |-> [environment |-> e, repository |-> repository,
                    scripts |-> s, dependencies |-> d, restrict |-> r]] :
            v \in {"V0_2_2"}, e \in {"0.2.2"}, s \in scripts, d \in dependencies,
            r \in restricts}
        \cup
        {[variant |-> v,
          toml |-> [environment |-> e, repository |-> repository,
                    scripts |-> s, dependencies |-> Some(b :> VersionNew(1, 2, 3)),
                    links |-> l, restrict |-> r]] :
            v \in {"V0_3_0"}, e \in {"0.3.0"}, s \in scripts, l \in links,
            r \in restricts}

(***************************************************************************)
(* The codec harness: one action per codec function, each applied once to  *)
(* an input drawn from the sets above                                      *)
(***************************************************************************)
resolverVars == <<dirs, configs, cwd, req, res, ignores, symlinks, call>>

CodecIdle == [op |-> "idle"]

\* Name::new(text)
CodecNew(text) ==
    /\ cdc = CodecIdle
    /\ cdc' = [op |-> "new", text |-> text, out |-> NameNew(text)]
    /\ UNCHANGED resolverVars

\* name.path_segments_as_repository_name(), name.path_segments_as_version_folder()
CodecRender(name) ==
    /\ cdc = CodecIdle
    /\ cdc' = [op |-> "render", name |-> name,
               out |-> path_segments_as_repository_name(name),
               folder |-> path_segments_as_version_folder(name)]
    /\ UNCHANGED resolverVars

\* Name::from_absolute_path(root.join(name.path_segments_as_repository_name()))
CodecDecode(name, root) ==
    /\ cdc = CodecIdle
    /\ cdc' = [op |-> "decode", name |-> name, root |-> root,
               out |-> from_absolute_path(root \o path_segments_as_repository_name(name))]
    /\ UNCHANGED resolverVars

\* Name::new(name.url_path_segments())
CodecUrl(name) ==
    /\ cdc = CodecIdle
    /\ cdc' = [op |-> "url", name |-> name, text |-> url_path_segments(name),
               out |-> NameNew(url_path_segments(name))]
    /\ UNCHANGED resolverVars

\* Config::from(TomlConfigLatest::from(document)), as Repository::from_path
\* does with the document it has read
CodecMigrate(document) ==
    /\ cdc = CodecIdle
    /\ cdc' = [op |-> "migrate", document |-> document,
               out |-> Config_from_latest(TomlConfigLatest_from_any(document))]
    /\ UNCHANGED resolverVars

CodecInit ==
    /\ cdc = CodecIdle
    /\ dirs = {}
    /\ configs = <<>>
    /\ cwd = <<>>
    /\ req = None
    /\ res = None
    /\ ignores = <<>>
    /\ symlinks = <<>>
    /\ call = [op |-> "none"]

CodecNext ==
    \/ \E text \in NameTexts : CodecNew(text)
    \/ \E name \in CodecNames : CodecRender(name)
    \/ \E name \in CodecNames, root \in {repository_root, fetched_repository_root} :
          CodecDecode(name, root)
    \/ \E name \in CodecNames : CodecUrl(name)
    \/ \E document \in TomlDocuments : CodecMigrate(document)

CodecSpec == CodecInit /\ [][CodecNext]_vars

(***************************************************************************)
(* Properties of the codec, checked under CodecSpec                        *)
(***************************************************************************)

\* C6: for every name N with a version V, from_absolute_path of a storage root
\* joined with path_segments_as_repository_name(N) yields N's segments and V
C6_PathRoundTrip ==
    (cdc.op = "decode" /\ IsSome(cdc.name.version)) =>
        /\ cdc.out.ok
        /\ cdc.out.val.segments = cdc.name.segments
        /\ cdc.out.val.version = cdc.name.version

C8_AcceptsExactlyGrammar ==
    cdc.op = "new" =>
        LET at == IndexOf(cdc.text, "@")
            head == IF at = 0 THEN cdc.text ELSE SubSeq(cdc.text, 1, at - 1)
            suffix == SubSeq(cdc.text, at + 1, Len(cdc.text))
            pieces == SplitOn(head, ".")
            InGrammar ==
                /\ \A i \in 1..Len(pieces) :
                      /\ pieces[i] # <<>>
                      /\ pieces[i][1] # "_"
                      /\ \A j \in 1..Len(pieces[i]) :
                            is_ascii_alphanumeric(pieces[i][j])
                            \/ pieces[i][j] \in {"_", "-"}
                /\ at # 0 => VersionParse(suffix).ok
        IN  /\ cdc.out.ok <=> InGrammar
            /\ cdc.out.ok =>
                  /\ cdc.out.val.segments = pieces
                  /\ cdc.out.val.version =
                        IF at = 0 THEN None ELSE Some(VersionParse(suffix).val)

\* C9: path_segments_as_repository_name writes "_<segment>" for every segment
\* but the last; the last is "__<segment>" followed by one version component
\* with '+' written as "__" when the name has a version, and the bare segment
\* with nothing after it when it has none; path_segments_as_version_folder
\* always ends in "__<segment>"
C9_RepositoryPathShape ==
    cdc.op = "render" =>
        LET segments == cdc.name.segments
            k == Len(segments)
        IN  /\ \A i \in 1..(k - 1) :
                  /\ cdc.out[i] = <<"_">> \o segments[i]
                  /\ cdc.folder[i] = <<"_">> \o segments[i]
            /\ IsSome(cdc.name.version) =>
                  /\ Len(cdc.out) = k + 1
                  /\ cdc.out[k] = <<"_", "_">> \o segments[k]
                  /\ IndexOf(cdc.out[k + 1], "+") = 0
                  /\ ReplaceUnderscores(cdc.out[k + 1])
                        = VersionToString(Unwrap(cdc.name.version))
            /\ cdc.name.version = None =>
                  /\ Len(cdc.out) = k
                  /\ cdc.out[k] = segments[k]
            /\ Len(cdc.folder) = k
            /\ cdc.folder[k] = <<"_", "_">> \o segments[k]

C9_Witness ==
    /\ cdc.op = "render"
    /\ Len(cdc.name.segments) = 2
    /\ IsSome(cdc.name.version)
    /\ Unwrap(cdc.name.version).build # <<>>
    /\ Len(cdc.out) = 3

(***************************************************************************)
(* The filesystem below the battalion root                                 *)
(***************************************************************************)
Prefixes(path) == {SubSeq(path, 1, n) : n \in 1..Len(path)}

\* Path::exists
exists(fs, path) == path \in fs

\* the directories `batl setup` and `batl upgrade` leave behind
SetupDirs ==
    Prefixes(repository_root) \cup Prefixes(fetched_repository_root)
    \cup {batl_root \o << <<"gen">>, <<"archives">> >>}

\* std::fs::create_dir_all
create_dir_all(fs, path) == fs \cup Prefixes(path)

\* std::fs::remove_dir_all
remove_dir_all(fs, path) == {d \in fs : ~IsPrefix(path, d)}

\* the names std::fs::read_dir yields for the directories below path
read_dir(fs, path) == {d[Len(path) + 1] : d \in {e \in fs : IsPrefix(path, e) /\ Len(e) = Len(path) + 1}}

(***************************************************************************)
(* Config and Repository  (resource/repository.rs)                         *)
(***************************************************************************)
EmptyMap == <<>>
MapInsert(map, key, value) ==
    [k \in DOMAIN map \cup {key} |-> IF k = key THEN value ELSE map[k]]
MapRemove(map, key) == [k \in DOMAIN map \ {key} |-> map[k]]

Config(name, version, dependencies, links) ==
    [name |-> name, version |-> version, dependencies |-> dependencies, links |-> links]

Repository(path, config, name) == [path |-> path, config |-> config, name |-> name]

\* AnyTomlConfig::read_toml(path.join("batl.toml")) followed by the migration
\* to Config
read_toml(cfgs, path) ==
    IF path \in DOMAIN cfgs THEN Ok(cfgs[path]) ELSE Err("io")

\* Repository::from_path
from_path(cfgs, path) ==
    LET loaded(name, toml) ==
            IF ~name.ok THEN Err(name.err)
            ELSE IF ~toml.ok THEN Err(toml.err)
            ELSE Ok(Repository(path, toml.val, name.val))
    IN  loaded(from_absolute_path(path), read_toml(cfgs, path))

\* Result::map(Option::Some)
map_some(result) == IF result.ok THEN Ok(Some(result.val)) ELSE Err(result.err)

\* from_path(path).map(Option::Some)
from_path_some(cfgs, path) == map_some(from_path(cfgs, path))

\* AnyTomlConfig::locate: the nearest directory, from path upwards, that holds
\* a batl.toml
locate(cfgs, path) ==
    LET holders == {n \in 1..Len(path) : SubSeq(path, 1, n) \in DOMAIN cfgs} IN
    IF holders = {} THEN None
    ELSE Some(SubSeq(path, 1, CHOOSE n \in holders : \A m \in holders : m <= n))

\* Repository::locate_then_load
locate_then_load(cfgs, path) ==
    LET found == locate(cfgs, path) IN
    IF found = None THEN Ok(None)
    ELSE from_path_some(cfgs, Unwrap(found))

\* load_versioned looking under the fetched root first
load_versioned_fetched_first(fs, cfgs, name) ==
    LET name_segments == path_segments_as_repository_name(name)
        version == Unwrap(name.version)
        regular_version_path == repository_root \o name_segments
        fetched_version_path == fetched_repository_root \o name_segments
        noversion_path ==
            repository_root \o path_segments_as_repository_name(without_version(name))
        same_version(repository) ==
            IF ~repository.ok THEN Err(repository.err)
            ELSE IF repository.val.config.version = version THEN Ok(Some(repository.val))
            ELSE Ok(None)
    IN  IF exists(fs, fetched_version_path) THEN from_path_some(cfgs, fetched_version_path)
        ELSE IF exists(fs, regular_version_path)
            THEN from_path_some(cfgs, regular_version_path)
        ELSE IF exists(fs, noversion_path)
            THEN same_version(from_path(cfgs, noversion_path))
        ELSE Ok(None)

\* load_versioned returning the unversioned copy whatever version it declares
load_versioned_any_version(fs, cfgs, name) ==
    LET name_segments == path_segments_as_repository_name(name)
        regular_version_path == repository_root \o name_segments
        fetched_version_path == fetched_repository_root \o name_segments
        noversion_path ==
            repository_root \o path_segments_as_repository_name(without_version(name))
    IN  IF exists(fs, regular_version_path) THEN from_path_some(cfgs, regular_version_path)
        ELSE IF exists(fs, fetched_version_path)
            THEN from_path_some(cfgs, fetched_version_path)
        ELSE IF exists(fs, noversion_path) THEN from_path_some(cfgs, noversion_path)
        ELSE Ok(None)

\* Repository::load for a name that carries a version (repository.rs:68-111)
load_versioned(fs, cfgs, name) ==
    LET name_segments == path_segments_as_repository_name(name)
        version == Unwrap(name.version)
        regular_version_path == repository_root \o name_segments
        fetched_version_path == fetched_repository_root \o name_segments
        noversion_path ==
            repository_root \o path_segments_as_repository_name(without_version(name))
        same_version(repository) ==
            IF ~repository.ok THEN Err(repository.err)
            ELSE IF repository.val.config.version = version THEN Ok(Some(repository.val))
            ELSE Ok(None)
    IN  IF exists(fs, regular_version_path) THEN from_path_some(cfgs, regular_version_path)
        ELSE IF exists(fs, fetched_version_path)
            THEN from_path_some(cfgs, fetched_version_path)
        ELSE IF exists(fs, noversion_path)
            THEN same_version(from_path(cfgs, noversion_path))
        ELSE Ok(None)

\* the first instead of the last of the sorted versions
MinVersion(versions) ==
    CHOOSE v \in versions : \A w \in versions : w = v \/ VersionLess(v, w)

\* versions.sort(); versions.last()
MaxVersion(versions) ==
    CHOOSE v \in versions : \A w \in versions : w = v \/ VersionLess(w, v)

\* read_dir(folder) parsed with Version::parse and collected into a Result
parse_versions(fs, folder) ==
    LET parsed == {VersionParse(child) : child \in read_dir(fs, folder)} IN
    IF \E p \in parsed : ~p.ok THEN Err("semver")
    ELSE Ok({p.val : p \in parsed})

\* the enumeration of one version folder in Repository::load
\* (repository.rs:134-152 and 158-176): Some(result) when it returns
load_from_folder(fs, cfgs, name, folder) ==
    LET latest(versions) ==
            IF ~versions.ok THEN Some(Err(versions.err))
            ELSE IF versions.val = {} THEN None
            ELSE Some(load_versioned(fs, cfgs,
                          with_version(name, MaxVersion(versions.val))))
    IN  IF ~exists(fs, folder) THEN None
        ELSE latest(parse_versions(fs, folder))

\* load_unversioned looking at the stored copies before the dependency pin
load_unversioned_pin_last(fs, cfgs, dir, name) ==
    LET regular_path == repository_root \o path_segments_as_repository_name(name)
        local_folder == repository_root \o path_segments_as_version_folder(name)
        fetched_folder == fetched_repository_root \o path_segments_as_version_folder(name)
        folders(from_local, from_fetched, otherwise) ==
            IF IsSome(from_local) THEN Unwrap(from_local)
            ELSE IF IsSome(from_fetched) THEN Unwrap(from_fetched)
            ELSE otherwise
        tiers(enclosing) ==
            IF ~enclosing.ok THEN Err(enclosing.err)
            ELSE IF exists(fs, regular_path) THEN from_path_some(cfgs, regular_path)
            ELSE folders(load_from_folder(fs, cfgs, name, local_folder),
                         load_from_folder(fs, cfgs, name, fetched_folder),
                         IF /\ IsSome(enclosing.val)
                            /\ name \in DOMAIN Unwrap(enclosing.val).config.dependencies
                         THEN load_versioned(fs, cfgs,
                                  with_version(name,
                                      Unwrap(enclosing.val).config.dependencies[name]))
                         ELSE Ok(None))
    IN  IF ~exists(fs, dir) THEN Err("io")
        ELSE tiers(locate_then_load(cfgs, dir))

\* load_unversioned enumerating the version folders before the unversioned copy
load_unversioned_folders_first(fs, cfgs, dir, name) ==
    LET regular_path == repository_root \o path_segments_as_repository_name(name)
        local_folder == repository_root \o path_segments_as_version_folder(name)
        fetched_folder == fetched_repository_root \o path_segments_as_version_folder(name)
        folders(from_local, from_fetched, otherwise) ==
            IF IsSome(from_local) THEN Unwrap(from_local)
            ELSE IF IsSome(from_fetched) THEN Unwrap(from_fetched)
            ELSE otherwise
        tiers(enclosing) ==
            IF ~enclosing.ok THEN Err(enclosing.err)
            ELSE IF /\ IsSome(enclosing.val)
                    /\ name \in DOMAIN Unwrap(enclosing.val).config.dependencies
                THEN load_versioned(fs, cfgs,
                         with_version(name,
                             Unwrap(enclosing.val).config.dependencies[name]))
            ELSE folders(load_from_folder(fs, cfgs, name, local_folder),
                         load_from_folder(fs, cfgs, name, fetched_folder),
                         IF exists(fs, regular_path)
                         THEN from_path_some(cfgs, regular_path)
                         ELSE Ok(None))
    IN  IF ~exists(fs, dir) THEN Err("io")
        ELSE tiers(locate_then_load(cfgs, dir))

\* Repository::load for a name without a version (repository.rs:112-179)
load_unversioned(fs, cfgs, dir, name) ==
    LET regular_path == repository_root \o path_segments_as_repository_name(name)
        local_folder == repository_root \o path_segments_as_version_folder(name)
        fetched_folder == fetched_repository_root \o path_segments_as_version_folder(name)
        folders(from_local, from_fetched) ==
            IF IsSome(from_local) THEN Unwrap(from_local)
            ELSE IF IsSome(from_fetched) THEN Unwrap(from_fetched)
            ELSE Ok(None)
        tiers(enclosing) ==
            IF ~enclosing.ok THEN Err(enclosing.err)
            ELSE IF /\ IsSome(enclosing.val)
                    /\ name \in DOMAIN Unwrap(enclosing.val).config.dependencies
                THEN load_versioned(fs, cfgs,
                         with_version(name,
                             Unwrap(enclosing.val).config.dependencies[name]))
            ELSE IF exists(fs, regular_path) THEN from_path_some(cfgs, regular_path)
            ELSE folders(load_from_folder(fs, cfgs, name, local_folder),
                         load_from_folder(fs, cfgs, name, fetched_folder))
    IN  IF ~exists(fs, dir) THEN Err("io")
        ELSE tiers(locate_then_load(cfgs, dir))

\* Repository::load
load(fs, cfgs, dir, name) ==
    IF IsSome(name.version) THEN load_versioned(fs, cfgs, name)
    ELSE load_unversioned(fs, cfgs, dir, name)

\* the frames the stack has room for
StackFrames == MaxRepos + 2

\* the versioned name a floating call of load hands on, if any: the pin of
\* the enclosing repository, else, when there is no unversioned local copy,
\* the last of the sorted versions of the local folder, else of the fetched
\* one (repository.rs:113-176)
load_recursion(fs, cfgs, dir, name) ==
    LET regular_path == repository_root \o path_segments_as_repository_name(name)
        local_folder == repository_root \o path_segments_as_version_folder(name)
        fetched_folder == fetched_repository_root \o path_segments_as_version_folder(name)
        \* [returned, next]: the enumeration of a folder returned, recursing
        \* into next
        latest(present, versions) ==
            IF ~present THEN [returned |-> FALSE, next |-> None]
            ELSE IF ~versions.ok THEN [returned |-> TRUE, next |-> None]
            ELSE IF versions.val = {} THEN [returned |-> FALSE, next |-> None]
            ELSE [returned |-> TRUE,
                  next |-> Some(with_version(name, MaxVersion(versions.val)))]
        folders(from_local, from_fetched) ==
            IF from_local.returned THEN from_local.next ELSE from_fetched.next
        tiers(enclosing) ==
            IF ~enclosing.ok THEN None
            ELSE IF /\ IsSome(enclosing.val)
                    /\ name \in DOMAIN Unwrap(enclosing.val).config.dependencies
                THEN Some(with_version(name,
                              Unwrap(enclosing.val).config.dependencies[name]))
            ELSE IF exists(fs, regular_path) THEN None
            ELSE folders(latest(exists(fs, local_folder),
                                parse_versions(fs, local_folder)),
                         latest(exists(fs, fetched_folder),
                                parse_versions(fs, fetched_folder)))
    IN  IF ~exists(fs, dir) THEN None
        ELSE tiers(locate_then_load(cfgs, dir))

RECURSIVE load_calls_floating_again(_, _, _, _, _)
\* the calls of a load that recurses with the name it was given
load_calls_floating_again(fs, cfgs, dir, name, frames) ==
    IF frames = 0 THEN <<>>
    ELSE IF IsSome(name.version) THEN <<name>>
    ELSE IF IsSome(load_recursion(fs, cfgs, dir, name))
        THEN <<name>> \o load_calls_floating_again(fs, cfgs, dir, name, frames - 1)
    ELSE <<name>>

RECURSIVE load_calls(_, _, _, _, _)
\* the names Repository::load is entered with, outermost first, while the
\* stack has frames: a call with a version returns on every branch without
\* calling load (repository.rs:68-111), one without a version calls
\* Self::load(name.with_version(..)) on three of its branches (118, 146, 170)
load_calls(fs, cfgs, dir, name, frames) ==
    LET handed(next) ==
            IF IsSome(next)
            THEN <<name>> \o load_calls(fs, cfgs, dir, Unwrap(next), frames - 1)
            ELSE <<name>>
    IN  IF frames = 0 THEN <<>>
        ELSE IF IsSome(name.version) THEN <<name>>
        ELSE handed(load_recursion(fs, cfgs, dir, name))

(***************************************************************************)
(* Inputs of the commands                                                  *)
(***************************************************************************)
V010 == VersionNew(0, 1, 0)
V100 == VersionNew(1, 0, 0)
V100b == Version(1, 0, 0, <<>>, <<"b">>)

TextA == <<"a">>
TextBA == <<"b", ".", "a">>

\* what the user types as a repository name
InitTexts == {TextA, TextBA, TextA \o <<"@">> \o VersionToString(V100)}
AddTexts == {TextA, TextBA}
LoadTexts ==
    {TextA, TextBA}
    \cup {TextA \o <<"@">> \o VersionToString(v) : v \in {V010, V100, V100b}}
FetchTexts == {TextA}

\* the batl.toml inside the archives the registry serves
Packages ==
    { Config(Name(<<TextA>>, None), V010, EmptyMap, EmptyMap),
      Config(Name(<<TextA>>, None), V100, EmptyMap, EmptyMap),
      Config(Name(<<TextA>>, None), V100b, EmptyMap, EmptyMap) }

\* the repositories the user works in
WorkTexts == {TextBA}

(***************************************************************************)
(* The commands  (commands.rs)                                             *)
(***************************************************************************)
\* no dependency or link command has run since the state last changed
NoCall == [op |-> "none"]

Forget == req' = None /\ res' = None /\ call' = NoCall

\* Repository::create writing its batl.toml whatever is at the path
create_overwriting(fs, cfgs, name) ==
    LET repo_path == repository_root \o path_segments_as_repository_name(name) IN
    [ok |-> TRUE, err |-> "none",
     fs |-> create_dir_all(fs, repo_path),
     cfgs |-> MapInsert(cfgs, repo_path, Config(name, V010, EmptyMap, EmptyMap))]

\* Repository::create (repository.rs:189-242): the filesystem and the configs
\* it leaves
create(fs, cfgs, name) ==
    LET repo_path == repository_root \o path_segments_as_repository_name(name) IN
    IF exists(fs, repo_path)
    THEN [ok |-> FALSE, err |-> "ResourceAlreadyExists", fs |-> fs, cfgs |-> cfgs]
    ELSE [ok |-> TRUE, err |-> "none",
          fs |-> create_dir_all(fs, repo_path),
          cfgs |-> MapInsert(cfgs, repo_path, Config(name, V010, EmptyMap, EmptyMap))]

\* cmd_init
CmdInit(text) ==
    LET name == NameNew(text) IN
    /\ cdc = CodecIdle
    /\ name.ok
    /\ Cardinality(DOMAIN configs) < MaxRepos
    /\ \E created \in {create(dirs, configs, name.val)} :
          /\ dirs' = created.fs
          /\ configs' = created.cfgs
          /\ call' = [op |-> "create", name |-> name.val,
                      path |-> repository_root
                                  \o path_segments_as_repository_name(name.val),
                      ok |-> created.ok, err |-> created.err,
                      before |-> [dirs |-> dirs, configs |-> configs],
                      prev |-> NoCall]
    /\ req' = None
    /\ res' = None
    /\ UNCHANGED <<cdc, cwd, ignores, symlinks>>

\* the statuses the registry answers with
Statuses == {200, 204, 404}

\* ureq's call() and send(): a response, or an error for a status of 400 and
\* above
call_status(status) == IF status >= 400 THEN Err("StatusCode") ELSE Ok(status)

\* what cmd_fetch and cmd_publish return for the registry's answer: the `?`
\* on call() or send(), then Ok(()) whatever the status of the response
cmd_result(response) ==
    IF ~response.ok THEN Err(response.err) ELSE Ok(response.val)

\* cmd_fetch, the registry answering with a status and, for 200, with the
\* archive of package
CmdFetch(text, package, local, status) ==
    LET name == NameNew(text)
        stored == with_version(package.name, package.version)
        root == IF local THEN repository_root ELSE fetched_repository_root
        repository_path == root \o path_segments_as_repository_name(stored)
    IN  /\ cdc = CodecIdle
        /\ name.ok
        /\ package.name.segments = name.val.segments
        /\ IsSome(name.val.version) => package.version = Unwrap(name.val.version)
        /\ IF status = 200
           THEN /\ Cardinality(DOMAIN configs) < MaxRepos
                /\ dirs' = create_dir_all(dirs, repository_path)
                \* move_dir does not overwrite a batl.toml that is already there
                /\ configs' = IF repository_path \in DOMAIN configs THEN configs
                              ELSE MapInsert(configs, repository_path, package)
           ELSE UNCHANGED <<dirs, configs>>
        /\ call' = [op |-> "fetch", name |-> name.val, status |-> status,
                    answered |-> TRUE,
                    out |-> cmd_result(call_status(status)),
                    before |-> [dirs |-> dirs, configs |-> configs],
                    prev |-> NoCall]
        /\ req' = None
        /\ res' = None
        /\ UNCHANGED <<cdc, cwd, ignores, symlinks>>

\* cmd_publish: the repository is loaded, its archive read (archived: there
\* is one) and posted, the registry answering with a status
CmdPublish(text, archived, status) ==
    LET name == NameNew(text) IN
    /\ cdc = CodecIdle
    /\ name.ok
    /\ \E loaded \in {load(dirs, configs, cwd, name.val)} :
          call' = [op |-> "publish", name |-> name.val, status |-> status,
                   answered |-> loaded.ok /\ IsSome(loaded.val) /\ archived,
                   out |-> IF ~loaded.ok THEN Err(loaded.err)
                           ELSE IF ~IsSome(loaded.val) \/ ~archived
                               THEN Err("ResourceDoesNotExist")
                           ELSE cmd_result(call_status(status)),
                   before |-> [dirs |-> dirs, configs |-> configs],
                   prev |-> NoCall]
    /\ req' = None
    /\ res' = None
    /\ UNCHANGED <<cdc, dirs, configs, cwd, ignores, symlinks>>

\* the entries read_dir counts: directories, and the files batl.toml and .batlrc
dir_entry_count(fs, cfgs, path) ==
    Cardinality(read_dir(fs, path))
    + (IF path \in DOMAIN cfgs \/ path = batl_root THEN 1 ELSE 0)

RECURSIVE remove_empty_parents(_, _, _)
\* the loop of cmd_delete over path.parent() (commands.rs:229-236)
remove_empty_parents(fs, cfgs, path) ==
    IF Len(path) <= 1 THEN fs
    ELSE IF dir_entry_count(fs, cfgs, parent(path)) = 0
        THEN remove_empty_parents(fs \ {parent(path)}, cfgs, parent(path))
    ELSE fs

\* Repository::destroy
destroy(fs, repository) == remove_dir_all(fs, repository.path)

\* cmd_delete, the user confirming
CmdDelete(text) ==
    LET name == NameNew(text) IN
    /\ cdc = CodecIdle
    /\ name.ok
    /\ \E loaded \in {load(dirs, configs, cwd, name.val)} :
          IF loaded.ok /\ IsSome(loaded.val)
          THEN LET repository == Unwrap(loaded.val)
                   kept == [p \in {q \in DOMAIN configs : ~IsPrefix(repository.path, q)}
                               |-> configs[p]]
               IN  /\ dirs' = remove_empty_parents(destroy(dirs, repository), kept,
                                                   repository.path)
                   /\ configs' = kept
                   \* remove_dir_all takes the files and the symlinks inside along
                   /\ ignores' = [p \in {q \in DOMAIN ignores :
                                            ~IsPrefix(repository.path, q)} |-> ignores[p]]
                   /\ symlinks' = [p \in {q \in DOMAIN symlinks :
                                             ~IsPrefix(repository.path, q)} |-> symlinks[p]]
                   /\ call' = [op |-> "delete", name |-> name.val,
                               path |-> repository.path, ok |-> TRUE,
                               before |-> [dirs |-> dirs, configs |-> configs],
                               prev |-> NoCall]
          ELSE /\ call' = [op |-> "delete", name |-> name.val, path |-> <<>>,
                           ok |-> FALSE,
                           before |-> [dirs |-> dirs, configs |-> configs],
                           prev |-> NoCall]
               /\ UNCHANGED <<dirs, configs, ignores, symlinks>>
    /\ req' = None
    /\ res' = None
    /\ UNCHANGED <<cdc, cwd>>

\* Repository::add_dependency with version None (repository.rs:394-412): the
\* config it saves, or the config unchanged when load fails
add_dependency(fs, cfgs, dir, repository, name) ==
    LET saved(loaded) ==
            IF loaded.ok /\ IsSome(loaded.val)
            THEN [repository.config EXCEPT
                     !.dependencies =
                         MapInsert(@, name, Unwrap(loaded.val).config.version)]
            ELSE repository.config
    IN  saved(load(fs, cfgs, dir, name))

\* cmd_add
CmdAdd(text) ==
    LET name == NameNew(text) IN
    /\ cdc = CodecIdle
    /\ name.ok
    /\ exists(dirs, cwd)
    /\ \E located \in {locate_then_load(configs, cwd)} :
          /\ located.ok /\ IsSome(located.val)
          /\ LET repository == Unwrap(located.val) IN
             /\ Cardinality(DOMAIN repository.config.dependencies \cup {name.val})
                   <= MaxDeps
             /\ configs' = [configs EXCEPT ![repository.path] =
                               add_dependency(dirs, configs, cwd, repository, name.val)]
    /\ Forget
    /\ UNCHANGED <<cdc, dirs, cwd, ignores, symlinks>>

\* the user's shell changing directory before the next command: into the
\* working copy of a repository (cd $(batl which <name>)) or out of it
Chdir(path) ==
    /\ cdc = CodecIdle
    /\ path \in dirs
    /\ path # cwd
    /\ cwd' = path
    /\ Forget
    /\ UNCHANGED <<cdc, dirs, configs, ignores, symlinks>>

\* cmd_which with a name: Repository::load(Name::new(name)?)
CmdWhich(text) ==
    LET name == NameNew(text) IN
    /\ cdc = CodecIdle
    /\ name.ok
    /\ req' = Some(name.val)
    /\ res' = load(dirs, configs, cwd, name.val)
    /\ call' = [op |-> "load",
                calls |-> load_calls(dirs, configs, cwd, name.val, StackFrames),
                prev |-> NoCall]
    /\ UNCHANGED <<cdc, dirs, configs, cwd, ignores, symlinks>>

WorkDirs ==
    {repository_root \o path_segments_as_repository_name(NameNew(text).val) :
        text \in WorkTexts}

Init ==
    /\ cdc = CodecIdle
    /\ dirs = SetupDirs
    /\ configs = EmptyMap
    /\ cwd = <<RootDir>>
    /\ req = None
    /\ res = None
    /\ ignores = EmptyMap
    /\ symlinks = EmptyMap
    /\ call = NoCall

Next ==
    \/ \E text \in InitTexts : CmdInit(text)
    \/ \E text \in FetchTexts, package \in Packages, local \in BOOLEAN,
            status \in Statuses :
          CmdFetch(text, package, local, status)
    \/ \E text \in FetchTexts, archived \in BOOLEAN, status \in Statuses :
          CmdPublish(text, archived, status)
    \/ \E text \in LoadTexts : CmdDelete(text)
    \/ \E text \in AddTexts : CmdAdd(text)
    \/ \E path \in WorkDirs \cup {<<RootDir>>} : Chdir(path)
    \/ \E text \in LoadTexts : CmdWhich(text)

Spec == Init /\ [][Next]_vars

(***************************************************************************)
(* Properties of Repository::load, checked under Spec.  req and res hold   *)
(* the last call of load; every command that changes the filesystem, the   *)
(* configs or the working directory forgets them.                          *)
(***************************************************************************)
Requested == Unwrap(req)
Returned == res.ok /\ IsSome(res.val)
ReturnedRepository == Unwrap(res.val)

LocalVersioned == repository_root \o path_segments_as_repository_name(Requested)
FetchedVersioned == fetched_repository_root \o path_segments_as_repository_name(Requested)
LocalUnversioned ==
    repository_root \o path_segments_as_repository_name(without_version(Requested))
LocalFolder == repository_root \o path_segments_as_version_folder(Requested)
FetchedFolder == fetched_repository_root \o path_segments_as_version_folder(Requested)

\* load returned the repository stored at path, with the config stored there
ReturnedFrom(path) ==
    /\ Returned
    /\ ReturnedRepository.path = path
    /\ path \in DOMAIN configs
    /\ ReturnedRepository.config = configs[path]

\* the dependencies of the repository enclosing the working directory
EnclosingFound == cwd \in dirs /\ IsSome(locate(configs, cwd))
EnclosingDependencies == configs[Unwrap(locate(configs, cwd))].dependencies
Pinned == EnclosingFound /\ Requested \in DOMAIN EnclosingDependencies
NotPinned == cwd \in dirs /\ (EnclosingFound => Requested \notin DOMAIN EnclosingDependencies)

\* C1: load(N@V) returns the copy under the local root when the versioned path
\* of N@V exists under both roots, and the fetched copy when it exists only
\* under the fetched root
C1_LocalBeforeFetched ==
    (IsSome(req) /\ IsSome(Requested.version)) =>
        /\ (LocalVersioned \in dirs /\ FetchedVersioned \in dirs) =>
              ReturnedFrom(LocalVersioned)
        /\ (LocalVersioned \notin dirs /\ FetchedVersioned \in dirs) =>
              ReturnedFrom(FetchedVersioned)

C1_Witness ==
    /\ IsSome(req) /\ IsSome(Requested.version)
    /\ LocalVersioned \in dirs /\ FetchedVersioned \in dirs
    /\ ReturnedFrom(LocalVersioned)

\* C2: with no directory at the versioned path of N@V in either root, load(N@V)
\* returns the unversioned local copy of N if and only if that copy declares
\* version V; a copy declaring another version is never returned and the
\* result is not-found
C2_UnversionedOnlyIfSameVersion ==
    (/\ IsSome(req) /\ IsSome(Requested.version)
     /\ LocalVersioned \notin dirs /\ FetchedVersioned \notin dirs) =>
        IF /\ LocalUnversioned \in DOMAIN configs
           /\ configs[LocalUnversioned].version = Unwrap(Requested.version)
        THEN ReturnedFrom(LocalUnversioned)
        ELSE res = Ok(None)

C2_Witness ==
    /\ IsSome(req) /\ IsSome(Requested.version)
    /\ LocalVersioned \notin dirs /\ FetchedVersioned \notin dirs
    /\ LocalUnversioned \in DOMAIN configs
    /\ ReturnedFrom(LocalUnversioned)

\* C3: for a floating N that the repository enclosing the working directory
\* pins at V, load(N) returns what load(N@V) returns, not-found included,
\* whatever unversioned copy or higher version of N is stored
C3_DependencyPinDecides ==
    (IsSome(req) /\ Requested.version = None /\ Pinned) =>
        res = load_versioned(dirs, configs,
                  with_version(Requested, EnclosingDependencies[Requested]))

C3_Witness ==
    /\ IsSome(req) /\ Requested.version = None /\ Pinned
    /\ LocalUnversioned \in DOMAIN configs
    /\ configs[LocalUnversioned].version # EnclosingDependencies[Requested]
    /\ Returned
    /\ IsPrefix(fetched_repository_root, ReturnedRepository.path)

\* the children of a version folder, each parsed as a semantic version
Children(folder) == read_dir(dirs, folder)
AllParse(folder) == \A child \in Children(folder) : VersionParse(child).ok

FellToFolder ==
    /\ IsSome(req) /\ Requested.version = None /\ NotPinned
    /\ LocalUnversioned \notin dirs

\* C5: when floating resolution falls to a version folder, local or fetched
\* when the local one holds no version, the repository returned is the one
\* stored under the greatest semantic version among all children of the folder
C5_MaximumVersion ==
    (FellToFolder /\ Returned) =>
        LET folder == IF Children(LocalFolder) # {} THEN LocalFolder ELSE FetchedFolder
            chosen == ReturnedRepository.path[Len(ReturnedRepository.path)]
        IN  /\ parent(ReturnedRepository.path) = folder
            /\ ReturnedRepository.path \in DOMAIN configs
            /\ ReturnedRepository.config = configs[ReturnedRepository.path]
            /\ \A child \in Children(folder) :
                  /\ VersionParse(child).ok
                  /\ ~VersionLess(VersionParse(chosen).val, VersionParse(child).val)

C5_Witness ==
    /\ FellToFolder /\ Returned
    /\ Cardinality(Children(LocalFolder)) = 2
    /\ parent(ReturnedRepository.path) = LocalFolder

\* C10: the Repository returned by load carries the segments of the requested
\* name, wherever it is stored
C10_NameOfRequest ==
    (IsSome(req) /\ Returned) => ReturnedRepository.name.segments = Requested.segments

(***************************************************************************)
(* The dependency and link methods of Repository (repository.rs:414-550)   *)
(***************************************************************************)
\* Path::to_string_lossy
to_string_lossy(path) ==
    IF is_absolute(path) THEN <<"/">> \o JoinWith(Tail(path), <<"/">>)
    ELSE JoinWith(path, <<"/">>)

\* the sentinel lines of the managed block, each one token of the text
GitignoreBegin == <<"# batl.gitignore begin DO NOT MODIFY">>
GitignoreEnd == <<"# batl.gitignore end DO NOT MODIFY">>

\* gitignore_content.split('\n'), the content of an absent file being empty
gitignore_lines(igs, self_path) ==
    SplitOn(IF self_path \in DOMAIN igs THEN igs[self_path] ELSE <<>>, "\n")

\* Vec::insert(index, line), index counted from 0
insert_line(lines, index, line) ==
    SubSeq(lines, 1, index) \o <<line>> \o SubSeq(lines, index + 1, Len(lines))

\* Vec::remove(index), index counted from 0
remove_line(lines, index) ==
    SubSeq(lines, 1, index) \o SubSeq(lines, index + 2, Len(lines))

\* File::create(gitignore_path) and write of lines.join("\n")
write_gitignore(igs, self_path, lines) ==
    MapInsert(igs, self_path, JoinWith(lines, <<"\n">>))

\* Repository::add_path_to_gitignore_file; positions are 1 more than in the
\* source, 0 standing for None
add_path_to_gitignore_file(igs, self_path, path) ==
    LET lines == gitignore_lines(igs, self_path)
        gitignore_batl_line == IndexOf(lines, GitignoreBegin)
    IN  IF gitignore_batl_line # 0
        THEN write_gitignore(igs, self_path,
                 insert_line(lines, gitignore_batl_line, to_string_lossy(path)))
        ELSE write_gitignore(igs, self_path,
                 lines \o <<GitignoreBegin, to_string_lossy(path), GitignoreEnd>>)

\* the search of find_in_block run over the whole file
find_in_block_from_top(lines, gitignore_batl_begin, searching) ==
    LET hits == {j \in 1..Len(lines) :
                    lines[j] = searching \/ lines[j] = GitignoreEnd}
    IN  IF hits = {} THEN 0 ELSE CHOOSE j \in hits : \A k \in hits : j <= k

\* iter().skip(begin).find(..): the first line at or after the begin sentinel
\* that is the searched path or the end sentinel, 0 when there is none
find_in_block(lines, gitignore_batl_begin, searching) ==
    LET hits == {j \in gitignore_batl_begin..Len(lines) :
                    lines[j] = searching \/ lines[j] = GitignoreEnd}
    IN  IF hits = {} THEN 0 ELSE CHOOSE j \in hits : \A k \in hits : j <= k

\* Repository::remove_path_from_gitignore_file
remove_path_from_gitignore_file(igs, self_path, path) ==
    LET lines == gitignore_lines(igs, self_path)
        gitignore_batl_begin == IndexOf(lines, GitignoreBegin)
        found == IF gitignore_batl_begin = 0 THEN 0
                 ELSE find_in_block(lines, gitignore_batl_begin, to_string_lossy(path))
    IN  IF self_path \notin DOMAIN igs THEN igs
        ELSE IF found # 0 /\ lines[found] = GitignoreEnd THEN igs
        ELSE IF found # 0 THEN write_gitignore(igs, self_path, remove_line(lines, found - 1))
        ELSE write_gitignore(igs, self_path, lines)

\* Path::exists on a path that may be a symlink: the link is followed
exists_following(fs, lns, path) ==
    IF path \in DOMAIN lns THEN lns[path] \in fs ELSE path \in fs

\* symlink_dir(original, link)
symlink_dir(fs, lns, original, link) ==
    IF link \in fs \/ link \in DOMAIN lns \/ parent(link) \notin fs THEN Err("io")
    ELSE Ok(MapInsert(lns, link, original))

\* std::fs::remove_file on the path of a link
remove_file(lns, link) ==
    IF link \in DOMAIN lns THEN Ok(MapRemove(lns, link)) ELSE Err("io")

\* what a method of Repository leaves: its error, self.config in memory, the
\* batl.toml files, the ignore files and the symlinks
Outcome(err, config, cfgs, igs, lns) ==
    [err |-> err, config |-> config, cfgs |-> cfgs, ignores |-> igs, symlinks |-> lns]

\* Repository::save
save(cfgs, self_path, config) == [cfgs EXCEPT ![self_path] = config]

\* remove_dependency without the check of the link map
remove_dependency_unchecked(cfgs, igs, lns, self, name) ==
    LET config == [self.config EXCEPT !.dependencies = MapRemove(@, name)] IN
    Outcome("none", config, save(cfgs, self.path, config), igs, lns)

\* remove_dependency checking the link map after the removal is saved
remove_dependency_check_last(cfgs, igs, lns, self, name) ==
    LET config == [self.config EXCEPT !.dependencies = MapRemove(@, name)] IN
    IF name \in DOMAIN self.config.links
    THEN Outcome("ActionImpossibleWhileCondition", config,
                 save(cfgs, self.path, config), igs, lns)
    ELSE Outcome("none", config, save(cfgs, self.path, config), igs, lns)

\* Repository::remove_dependency
remove_dependency(cfgs, igs, lns, self, name) ==
    IF name \in DOMAIN self.config.links
    THEN Outcome("ActionImpossibleWhileCondition", self.config, cfgs, igs, lns)
    ELSE LET config == [self.config EXCEPT !.dependencies = MapRemove(@, name)] IN
         Outcome("none", config, save(cfgs, self.path, config), igs, lns)

\* add_link writing the ignore file before its two checks
add_link_write_first(fs, cfgs, igs, lns, self, repository, path) ==
    LET name == repository.name
        written == add_path_to_gitignore_file(igs, self.path, path)
        linked(made) ==
            IF ~made.ok THEN Outcome(made.err, self.config, cfgs, written, lns)
            ELSE LET config == [self.config EXCEPT !.links = MapInsert(@, name, path)] IN
                 Outcome("none", config, save(cfgs, self.path, config), written, made.val)
    IN  IF exists_following(fs, lns, path)
        THEN Outcome("ResourceAlreadyExists", self.config, cfgs, written, lns)
        ELSE IF name \notin DOMAIN self.config.dependencies
        THEN Outcome("ResourceDoesNotHaveThing", self.config, cfgs, written, lns)
        ELSE linked(symlink_dir(fs, lns, repository.path, path))

\* Repository::add_link
add_link(fs, cfgs, igs, lns, self, repository, path) ==
    LET name == repository.name
        written == add_path_to_gitignore_file(igs, self.path, path)
        linked(made) ==
            IF ~made.ok THEN Outcome(made.err, self.config, cfgs, written, lns)
            ELSE LET config == [self.config EXCEPT !.links = MapInsert(@, name, path)] IN
                 Outcome("none", config, save(cfgs, self.path, config), written, made.val)
    IN  IF exists_following(fs, lns, path)
        THEN Outcome("ResourceAlreadyExists", self.config, cfgs, igs, lns)
        ELSE IF name \notin DOMAIN self.config.dependencies
        THEN Outcome("ResourceDoesNotHaveThing", self.config, cfgs, igs, lns)
        ELSE linked(symlink_dir(fs, lns, repository.path, path))

\* remove_link taking the dependency away together with the link
remove_link_with_dependency(fs, cfgs, igs, lns, self, name) ==
    IF name \notin DOMAIN self.config.links
    THEN Outcome("ResourceDoesNotHaveThing", self.config, cfgs, igs, lns)
    ELSE LET link == self.config.links[name]
             unlinked(removed) ==
                 IF ~removed.ok THEN Outcome(removed.err, self.config, cfgs, igs, lns)
                 ELSE LET config == [self.config EXCEPT
                                        !.links = MapRemove(@, name),
                                        !.dependencies = MapRemove(@, name)] IN
                      Outcome("none", config, save(cfgs, self.path, config),
                              remove_path_from_gitignore_file(igs, self.path, link),
                              removed.val)
         IN  IF exists_following(fs, lns, link)
             THEN unlinked(remove_file(lns, link))
             ELSE unlinked(Ok(lns))

\* Repository::remove_link
remove_link(fs, cfgs, igs, lns, self, name) ==
    IF name \notin DOMAIN self.config.links
    THEN Outcome("ResourceDoesNotHaveThing", self.config, cfgs, igs, lns)
    ELSE LET link == self.config.links[name]
             unlinked(removed) ==
                 IF ~removed.ok THEN Outcome(removed.err, self.config, cfgs, igs, lns)
                 ELSE LET config == [self.config EXCEPT !.links = MapRemove(@, name)] IN
                      Outcome("none", config, save(cfgs, self.path, config),
                              remove_path_from_gitignore_file(igs, self.path, link),
                              removed.val)
         IN  IF exists_following(fs, lns, link)
             THEN unlinked(remove_file(lns, link))
             ELSE unlinked(Ok(lns))

(***************************************************************************)
(* The dependency and link commands (commands.rs:504-515, 614-632)         *)
(***************************************************************************)
MaxLines == 7       \* lines of a .gitignore a link command is still run on

\* the names the user links and unlinks, and the registry's archive of `a`
LinkTexts == {TextA}
LinkInitTexts == {TextA, TextBA}
LinkPackages == {Config(Name(<<TextA>>, None), V100, EmptyMap, EmptyMap)}

\* the last components of the target paths the user hands to `batl link`
LinkLeaves == {<<"l">>, <<"m">>}

\* what the user may have written into .gitignore: nothing but a line of their
\* own, a managed block between lines of their own, and the text of a link
\* path on both sides of an empty managed block
IgnoreContents(self_path) ==
    { <<"x">>,
      <<"x", "\n">> \o GitignoreBegin \o <<"\n">> \o GitignoreEnd \o <<"\n", "y">>,
      to_string_lossy(Append(self_path, <<"l">>)) \o <<"\n">> \o GitignoreBegin
          \o <<"\n">> \o GitignoreEnd \o <<"\n">>
          \o to_string_lossy(Append(self_path, <<"l">>)) }

\* the record of a dependency or link command: what was asked, the state
\* before it, how it ended, self.config as the method left it in memory, and
\* the command that ran right before it
Called(op, name, path, other, self, out) ==
    [op |-> op, name |-> name, path |-> path, other |-> other, self |-> self.path,
     before |-> [config |-> self.config, configs |-> configs, dirs |-> dirs,
                 ignores |-> ignores, symlinks |-> symlinks],
     err |-> out.err, config |-> out.config,
     prev |-> IF call.op = "none" THEN NoCall ELSE [call EXCEPT !.prev = NoCall]]

\* the files a method leaves, written back
Commit(out) ==
    /\ configs' = out.cfgs
    /\ ignores' = out.ignores
    /\ symlinks' = out.symlinks
    /\ req' = None
    /\ res' = None
    /\ UNCHANGED <<cdc, dirs, cwd>>

\* cmd_remove
CmdRemove(text) ==
    LET name == NameNew(text) IN
    /\ cdc = CodecIdle
    /\ name.ok
    /\ exists(dirs, cwd)
    /\ \E located \in {locate_then_load(configs, cwd)} :
          /\ located.ok /\ IsSome(located.val)
          /\ \E out \in {remove_dependency(configs, ignores, symlinks,
                                          Unwrap(located.val), name.val)} :
                /\ Commit(out)
                /\ call' = Called("remove_dependency", name.val, None, None,
                                  Unwrap(located.val), out)

\* cmd_link, the target path given as an absolute path
CmdLink(text, path) ==
    LET name == NameNew(text) IN
    /\ cdc = CodecIdle
    /\ name.ok
    /\ exists(dirs, cwd)
    /\ \E located \in {locate_then_load(configs, cwd)},
          other \in {load(dirs, configs, cwd, name.val)} :
          /\ located.ok /\ IsSome(located.val)
          /\ other.ok /\ IsSome(other.val)
          /\ Len(gitignore_lines(ignores, Unwrap(located.val).path)) <= MaxLines
          /\ \E out \in {add_link(dirs, configs, ignores, symlinks,
                                 Unwrap(located.val), Unwrap(other.val), path)} :
                /\ Commit(out)
                /\ call' = Called("add_link", name.val, Some(path), other.val,
                                  Unwrap(located.val), out)

\* cmd_unlink
CmdUnlink(text) ==
    LET name == NameNew(text) IN
    /\ cdc = CodecIdle
    /\ name.ok
    /\ exists(dirs, cwd)
    /\ \E located \in {locate_then_load(configs, cwd)} :
          /\ located.ok /\ IsSome(located.val)
          /\ \E out \in {remove_link(dirs, configs, ignores, symlinks,
                                    Unwrap(located.val), name.val)} :
                /\ Commit(out)
                /\ call' = Called("remove_link", name.val,
                                  IF name.val \in DOMAIN Unwrap(located.val).config.links
                                  THEN Some(Unwrap(located.val).config.links[name.val])
                                  ELSE None,
                                  None, Unwrap(located.val), out)

\* the user editing the .gitignore of the repository they work in
WriteIgnore ==
    /\ cdc = CodecIdle
    /\ exists(dirs, cwd)
    /\ cwd \in DOMAIN configs
    /\ \E content \in IgnoreContents(cwd) :
          ignores' = MapInsert(ignores, cwd, content)
    /\ Forget
    /\ UNCHANGED <<cdc, dirs, configs, cwd, symlinks>>

LinkNext ==
    \/ \E text \in LinkInitTexts : CmdInit(text)
    \/ \E text \in LinkTexts, package \in LinkPackages, local \in BOOLEAN :
          CmdFetch(text, package, local, 200)
    \/ \E path \in WorkDirs \cup {<<RootDir>>} : Chdir(path)
    \/ \E text \in LinkTexts : CmdAdd(text)
    \/ \E text \in LinkTexts : CmdRemove(text)
    \/ \E text \in LinkTexts, leaf \in LinkLeaves : CmdLink(text, Append(cwd, leaf))
    \/ \E text \in LinkTexts : CmdUnlink(text)
    \/ \E text \in LinkTexts : CmdDelete(text)
    \/ WriteIgnore

LinkSpec == Init /\ [][LinkNext]_vars

(***************************************************************************)
(* Properties of the dependency and link methods, checked under LinkSpec   *)
(***************************************************************************)
\* the last command changed nothing: self.config in memory, every batl.toml,
\* the directories, the ignore files and the symlinks are as before the call
NothingChanged ==
    /\ call.config = call.before.config
    /\ configs = call.before.configs
    /\ dirs = call.before.dirs
    /\ ignores = call.before.ignores
    /\ symlinks = call.before.symlinks

LinksWithinDependencies(config) == DOMAIN config.links \subseteq DOMAIN config.dependencies

\* C11: after any sequence of add_dependency, remove_dependency, add_link and
\* remove_link calls, successful or failing, every key of a repository's link
\* map is a key of its dependency map, on disk and in memory
C11_LinkKeysAreDependencyKeys ==
    /\ \A path \in DOMAIN configs : LinksWithinDependencies(configs[path])
    /\ call.op \in {"remove_dependency", "add_link", "remove_link"} =>
          LinksWithinDependencies(call.config)

C11_Witness ==
    /\ call.op = "remove_dependency"
    /\ call.err # "none"
    /\ configs[call.self].links # EmptyMap
    /\ call.prev.op = "add_link"

\* C12: remove_dependency(name) on a repository whose link map contains name
\* fails with ActionImpossible and changes nothing in memory or on disk
C12_LinkedDependencyStays ==
    (call.op = "remove_dependency" /\ call.name \in DOMAIN call.before.config.links) =>
        /\ call.err = "ActionImpossibleWhileCondition"
        /\ NothingChanged

C12_Witness ==
    /\ call.op = "remove_dependency"
    /\ call.name \in DOMAIN call.before.config.links
    /\ call.name \in DOMAIN configs[call.self].dependencies
    /\ call.err = "ActionImpossibleWhileCondition"

\* C13: add_link fails with ResourceAlreadyExists when Path::exists holds of
\* the target path, and with MissingDependency (the error of
\* err_resource_does_not_have_thing) when the name of the dependency
\* repository is no key of the dependency map and the target path does not
\* exist; both leave the ignore file, the filesystem and the link map unchanged
C13_AddLinkRefusals ==
    call.op = "add_link" =>
        LET target_exists ==
                exists_following(call.before.dirs, call.before.symlinks, Unwrap(call.path))
            declared ==
                Unwrap(call.other).name \in DOMAIN call.before.config.dependencies
        IN  /\ target_exists =>
                  call.err = "ResourceAlreadyExists" /\ NothingChanged
            /\ (~target_exists /\ ~declared) =>
                  call.err = "ResourceDoesNotHaveThing" /\ NothingChanged

C13_Witness ==
    /\ call.op = "add_link"
    /\ call.err = "ResourceAlreadyExists"
    /\ Unwrap(call.path) \in DOMAIN call.before.symlinks
    /\ call.before.ignores # EmptyMap

\* C14: when N is a declared dependency of the consumer and R is what load(N)
\* resolves to from inside the consumer, add_link(R, p) with nothing at p
\* succeeds, creates the symlink at p pointing to R's path and records the
\* link under a key that is a declared dependency
C14_ResolvedDependencyLinks ==
    (/\ call.op = "add_link"
     /\ call.name \in DOMAIN call.before.config.dependencies
     /\ Unwrap(call.path) \notin call.before.dirs
     /\ Unwrap(call.path) \notin DOMAIN call.before.symlinks) =>
        /\ call.err = "none"
        /\ Unwrap(call.path) \in DOMAIN symlinks
        /\ symlinks[Unwrap(call.path)] = Unwrap(call.other).path
        /\ \E key \in DOMAIN configs[call.self].dependencies :
              /\ key \in DOMAIN configs[call.self].links
              /\ configs[call.self].links[key] = Unwrap(call.path)

\* the lines of the ignore file of the repository the last command ran in
LinesOf(igs) == gitignore_lines(igs, call.self)

\* C15: add_link followed immediately by remove_link for the same name leaves
\* the ignore file as it was before add_link, or as it was with an empty
\* managed block appended, removes the symlink at the target path and leaves
\* the link map as it was before add_link
C15_LinkThenUnlinkRestores ==
    (/\ call.op = "remove_link" /\ call.err = "none"
     /\ call.prev.op = "add_link" /\ call.prev.err = "none"
     /\ Unwrap(call.prev.other).name = call.name) =>
        /\ \/ LinesOf(ignores) = LinesOf(call.prev.before.ignores)
           \/ LinesOf(ignores) =
                 LinesOf(call.prev.before.ignores) \o <<GitignoreBegin, GitignoreEnd>>
        /\ Unwrap(call.prev.path) \notin DOMAIN symlinks
        /\ Unwrap(call.prev.path) \notin dirs
        /\ configs[call.self].links = call.prev.before.config.links

\* the lines before the begin sentinel (every line when there is none) and the
\* lines after the first end sentinel that follows it
OutsideBlock(lines) ==
    LET begin == IndexOf(lines, GitignoreBegin)
        end == IF begin = 0 THEN 0 ELSE IndexOfFrom(lines, GitignoreEnd, begin)
    IN  IF begin = 0 THEN <<lines, <<>> >>
        ELSE IF end = 0 THEN <<SubSeq(lines, 1, begin - 1), <<>> >>
        ELSE <<SubSeq(lines, 1, begin - 1), SubSeq(lines, end + 1, Len(lines))>>

\* the lines strictly between the begin sentinel and the end sentinel
InsideBlock(lines) ==
    LET begin == IndexOf(lines, GitignoreBegin)
        end == IF begin = 0 THEN 0 ELSE IndexOfFrom(lines, GitignoreEnd, begin)
    IN  IF begin = 0 \/ end = 0 THEN {}
        ELSE {lines[j] : j \in (begin + 1)..(end - 1)}

\* C16: add_link and remove_link leave every line outside the managed block
\* as it was, in the same order; remove_link of a path that has no line inside
\* the block deletes nothing, even when the path text stands outside the block
C16_OutsideBlockUntouched ==
    call.op \in {"add_link", "remove_link"} =>
        /\ OutsideBlock(LinesOf(ignores)) = OutsideBlock(LinesOf(call.before.ignores))
        /\ (/\ call.op = "remove_link"
            /\ IsSome(call.path)
            /\ to_string_lossy(Unwrap(call.path))
                   \notin InsideBlock(LinesOf(call.before.ignores))) =>
              LinesOf(ignores) = LinesOf(call.before.ignores)

C16_Witness ==
    /\ call.op = "remove_link" /\ call.err = "none"
    /\ IsSome(call.path)
    /\ IndexOf(LinesOf(call.before.ignores), GitignoreBegin) > 1
    /\ LinesOf(call.before.ignores)[1] = to_string_lossy(Unwrap(call.path))
    /\ to_string_lossy(Unwrap(call.path)) \notin InsideBlock(LinesOf(call.before.ignores))

\* C17: remove_link(name) fails with MissingLink (the error of
\* err_resource_does_not_have_thing) and changes nothing when the link map has
\* no entry for name; when it succeeds the link map no longer holds name and
\* the dependency map is as before
C17_RemoveLink ==
    call.op = "remove_link" =>
        /\ call.name \notin DOMAIN call.before.config.links =>
              call.err = "ResourceDoesNotHaveThing" /\ NothingChanged
        /\ call.err = "none" =>
              /\ call.name \notin DOMAIN call.config.links
              /\ call.name \notin DOMAIN configs[call.self].links
              /\ call.config.dependencies = call.before.config.dependencies
              /\ configs[call.self].dependencies = call.before.config.dependencies

C17_Witness ==
    /\ call.op = "remove_link" /\ call.err = "none"
    /\ call.name \in DOMAIN call.before.config.links
    /\ call.name \in DOMAIN configs[call.self].dependencies

(***************************************************************************)
(* The transitive dependencies of a repository (resource/summary.rs) and   *)
(* cmd_deps (commands.rs:636-648)                                          *)
(***************************************************************************)
\* the calls of add_deps_of_repository_to_tracked the stack of the process
\* holds: more than any chain through distinct stored repositories needs
V200 == VersionNew(2, 0, 0)
TextB == <<"b">>
TextX == <<"x">>
NameA == Name(<<TextA>>, None)
NameB == Name(<<TextB>>, None)
NameX == Name(<<TextX>>, None)

\* the repositories the user creates, names as a dependency and fetches
DepInitTexts == {TextA, TextB}
DepAddTexts == {TextA, TextB}
DepFetchTexts == {TextA, TextB, TextX}
\* the registry: b 1.0.0 depends on x 2.0.0; a 1.0.0 depends on both
DepPackages ==
    { Config(NameB, V100, MapInsert(EmptyMap, NameX, V200), EmptyMap),
      Config(NameX, V200, EmptyMap, EmptyMap),
      Config(NameA, V100, MapInsert(MapInsert(EmptyMap, NameB, V100), NameX, V200),
             EmptyMap) }
\* where the user runs `batl deps`
DepDirs ==
    { repository_root \o path_segments_as_repository_name(NameA),
      repository_root \o path_segments_as_repository_name(NameB),
      fetched_repository_root \o path_segments_as_repository_name(with_version(NameA, V100)) }

\* the orders in which a HashMap<Name, Version> may yield its keys
Orders ==
    {o \in [1..3 -> {NameA, NameB, NameX}] : \A i, j \in 1..3 : o[i] = o[j] => i = j}

\* the keys of a dependency map in the order the iteration yields them
keys_in_order(dependencies, order) ==
    SelectSeq(order, LAMBDA n : n \in DOMAIN dependencies)

RECURSIVE add_deps_of_repository_to_tracked(_, _, _, _, _, _, _, _)
\* RecursedRepositoryDeps::add_deps_of_repository_to_tracked, keys being the
\* dependencies the loop has still to visit; a call that finds no stack frame
\* left ends the process with a stack overflow
add_deps_of_repository_to_tracked(fs, cfgs, dir, repository, keys, out, order, frames) ==
    IF keys = <<>> THEN Ok(out)
    ELSE LET dependency == <<Head(keys), repository.config.dependencies[Head(keys)]>>
             dep_name == with_version(dependency[1], dependency[2])
             inserted(tracked) ==
                 IF ~tracked.ok THEN tracked
                 ELSE add_deps_of_repository_to_tracked(fs, cfgs, dir, repository,
                          Tail(keys), tracked.val \cup {dependency}, order, frames)
             recursed(dep_repo) ==
                 IF ~dep_repo.ok THEN Err(dep_repo.err)
                 ELSE IF dep_repo.val = None THEN Err("ResourceDoesNotExist")
                 ELSE IF frames = 0 THEN Err("StackOverflow")
                 ELSE inserted(add_deps_of_repository_to_tracked(fs, cfgs, dir,
                          Unwrap(dep_repo.val),
                          keys_in_order(Unwrap(dep_repo.val).config.dependencies, order),
                          out, order, frames - 1))
         IN  IF dependency \in out
             THEN add_deps_of_repository_to_tracked(fs, cfgs, dir, repository,
                      Tail(keys), out, order, frames)
             ELSE recursed(load(fs, cfgs, dir, dep_name))

\* of_repository stopping at the dependencies the repository declares itself
of_repository_declared_only(fs, cfgs, dir, repository, order) ==
    Ok({<<n, repository.config.dependencies[n]>> :
           n \in DOMAIN repository.config.dependencies})

\* RecursedRepositoryDeps::of_repository
of_repository(fs, cfgs, dir, repository, order) ==
    add_deps_of_repository_to_tracked(fs, cfgs, dir, repository,
        keys_in_order(repository.config.dependencies, order), {}, order, StackFrames)

\* cmd_deps, the dependency maps yielding their keys in the given order
CmdDeps(order) ==
    /\ cdc = CodecIdle
    /\ exists(dirs, cwd)
    /\ \E located \in {locate_then_load(configs, cwd)} :
          /\ located.ok /\ IsSome(located.val)
          /\ call' = [op |-> "summarize", self |-> Unwrap(located.val).path,
                      order |-> order,
                      out |-> of_repository(dirs, configs, cwd, Unwrap(located.val), order)]
    /\ req' = None
    /\ res' = None
    /\ UNCHANGED <<cdc, dirs, configs, cwd, ignores, symlinks>>

DepsNext ==
    \/ \E text \in DepInitTexts : CmdInit(text)
    \/ \E text \in DepFetchTexts, package \in DepPackages : CmdFetch(text, package, FALSE, 200)
    \/ \E path \in DepDirs \cup {<<RootDir>>} : Chdir(path)
    \/ \E text \in DepAddTexts : CmdAdd(text)
    \/ \E order \in Orders : CmdDeps(order)

DepsSpec == Init /\ [][DepsNext]_vars

(***************************************************************************)
(* Properties of the transitive dependencies, checked under DepsSpec       *)
(***************************************************************************)
\* the declared dependency graph: the (name, version) pairs a repository
\* declares, and the repository a pair resolves to
Declared(repository) ==
    {<<n, repository.config.dependencies[n]>> : n \in DOMAIN repository.config.dependencies}
Resolved(pair) == load_versioned(dirs, configs, with_version(pair[1], pair[2]))
Resolves(pair) == Resolved(pair).ok /\ IsSome(Resolved(pair).val)

RECURSIVE ReachedIn(_, _)
\* the pairs within n more dependency edges of the given pairs
ReachedIn(pairs, n) ==
    IF n = 0 THEN pairs
    ELSE ReachedIn(pairs \cup UNION {Declared(Unwrap(Resolved(p).val)) :
                                        p \in {q \in pairs : Resolves(q)}}, n - 1)

\* the pairs reachable from a repository through dependency edges
ReachableFrom(repository) == ReachedIn(Declared(repository), MaxRepos + 1)

\* the repository `batl deps` was run in
SummarizedRoot == from_path(configs, call.self).val

\* no repository reachable from the root is reachable from itself
AcyclicFrom(root) ==
    /\ \A p \in ReachableFrom(root) :
          Resolves(p) =>
              /\ Unwrap(Resolved(p).val).path # root.path
              /\ p \notin ReachableFrom(Unwrap(Resolved(p).val))

\* C18: for an acyclic declared graph in which every pinned dependency
\* resolves, the transitive closure of the root is exactly the set of
\* (name, version) pairs reachable from it, as a set (a pair reached twice is
\* there once), the root not among them, whatever the iteration order
C18_ClosureIsReachableSet ==
    (/\ call.op = "summarize"
     /\ AcyclicFrom(SummarizedRoot)
     /\ \A p \in ReachableFrom(SummarizedRoot) : Resolves(p)) =>
        /\ call.out.ok
        /\ call.out.val = ReachableFrom(SummarizedRoot)
        /\ <<SummarizedRoot.config.name, SummarizedRoot.config.version>> \notin call.out.val
        /\ \A p \in call.out.val : Unwrap(Resolved(p).val).path # call.self

\* A -> B@1.0.0 -> C@2.0.0, the names being a, b and x
C18_Witness ==
    /\ call.op = "summarize"
    /\ call.self = repository_root \o path_segments_as_repository_name(NameA)
    /\ Declared(SummarizedRoot) = {<<NameB, V100>>}
    /\ call.out = Ok({<<NameB, V100>>, <<NameX, V200>>})

\* C19: when the declared graph reachable from a repository holds a cycle,
\* computing its transitive closure ends with a CyclicDependency failure
C19_CycleIsReported ==
    (call.op = "summarize" /\ ~AcyclicFrom(SummarizedRoot)) =>
        call.out = Err("CyclicDependency")

(***************************************************************************)
(* Properties of the migration, checked under CodecSpec                    *)
(***************************************************************************)
\* the keys of a table of a document, none when the table is absent
TableKeys(table) == IF IsSome(table) THEN DOMAIN Unwrap(table) ELSE {}

\* C20: migrating a document of generation 0.2.0, 0.2.1 or 0.2.2 gives a
\* Config whose dependency, link and restriction maps are maps, never absent:
\* the dependency map has the keys of the document's table and is empty when
\* a 0.2.0 document has no such table, the link map is empty for every such
\* document, and the restriction map is empty for 0.2.0 and 0.2.1 documents
C20_MigratedMapsDefined ==
    (cdc.op = "migrate" /\ cdc.document.variant \in {"V0_2_0", "V0_2_1", "V0_2_2"}) =>
        /\ DOMAIN cdc.out.dependencies = TableKeys(cdc.document.toml.dependencies)
        /\ \A k \in DOMAIN cdc.out.dependencies :
              cdc.out.dependencies[k].major \in Nat
        /\ (cdc.document.variant = "V0_2_0" /\ cdc.document.toml.dependencies = None) =>
              cdc.out.dependencies = EmptyMap
        /\ cdc.out.links = EmptyMap
        /\ cdc.document.variant \in {"V0_2_0", "V0_2_1"} => cdc.out.restrict = EmptyMap
        /\ cdc.document.variant = "V0_2_2" =>
              DOMAIN cdc.out.restrict = TableKeys(cdc.document.toml.restrict)

\* a 0.2.0 document without a dependencies table has been migrated
C20_Witness ==
    /\ cdc.op = "migrate"
    /\ cdc.document.variant = "V0_2_0"
    /\ cdc.document.toml.dependencies = None
    /\ cdc.out.dependencies = EmptyMap
    /\ cdc.out.links = EmptyMap
    /\ cdc.out.restrict = EmptyMap

\* C21: migration does not fail on a dependency whose version text is not a
\* semantic version: the dependency names are those of the document, a
\* dependency whose text parses has the version that text writes, and one
\* whose text does not parse has version 0.0.0
C21_UnparsableVersionDefaults ==
    (/\ cdc.op = "migrate"
     /\ cdc.document.variant \in {"V0_2_0", "V0_2_1", "V0_2_2"}
     /\ IsSome(cdc.document.toml.dependencies)) =>
        /\ DOMAIN cdc.out.dependencies = DOMAIN Unwrap(cdc.document.toml.dependencies)
        /\ \A k \in DOMAIN Unwrap(cdc.document.toml.dependencies) :
              IF VersionParse(Unwrap(cdc.document.toml.dependencies)[k]).ok
              THEN VersionToString(cdc.out.dependencies[k])
                      = Unwrap(cdc.document.toml.dependencies)[k]
              ELSE cdc.out.dependencies[k] = VersionNew(0, 0, 0)

\* a document with one dependency whose version parses and one whose version
\* does not has been migrated
C21_Witness ==
    /\ cdc.op = "migrate"
    /\ cdc.document.variant = "V0_2_1"
    /\ IsSome(cdc.document.toml.dependencies)
    /\ \E k, j \in DOMAIN cdc.out.dependencies :
          /\ ~VersionParse(Unwrap(cdc.document.toml.dependencies)[k]).ok
          /\ cdc.out.dependencies[k] = VersionNew(0, 0, 0)
          /\ VersionParse(Unwrap(cdc.document.toml.dependencies)[j]).ok
          /\ cdc.out.dependencies[j] = VersionNew(1, 2, 3)

(***************************************************************************)
(* Properties of create and delete, checked under Spec.  call holds the    *)
(* last create or delete with the filesystem it started from.              *)
(***************************************************************************)
\* create refused because its path was there, and left everything as it was
CreateRefused ==
    (call.op = "create"
     /\ repository_root \o path_segments_as_repository_name(call.name)
           \in call.before.dirs) =>
        /\ ~call.ok
        /\ call.err = "ResourceAlreadyExists"
        /\ dirs = call.before.dirs
        /\ configs = call.before.configs

\* create succeeded only where nothing was, and its repository is there now
CreatedFresh ==
    (call.op = "create" /\ call.ok) =>
        /\ call.path \notin call.before.dirs
        /\ call.path \in dirs
        /\ call.path \in DOMAIN configs

\* a stored repository goes away only by a delete of that repository
OnlyDestroyRemoves ==
    \A p \in DOMAIN configs :
        (p \notin dirs' \/ p \notin DOMAIN configs') =>
            (call'.op = "delete" /\ call'.ok /\ call'.path = p)

\* load of the created name gives the created repository
LoadFindsCreated ==
    LET found == load(dirs, configs, cwd, call.name) IN
    found.ok /\ IsSome(found.val) /\ Unwrap(found.val).path = call.path

\* no repository enclosing the working directory pins the created name
CreatedNotPinned ==
    /\ cwd \in dirs
    /\ IsSome(locate(configs, cwd)) =>
          call.name \notin DOMAIN configs[Unwrap(locate(configs, cwd))].dependencies

\* C22 as stated: create fails with AlreadyExists and changes nothing when
\* its path exists; a second create of a name succeeds only after a delete
\* of that repository; after a successful create, load(name) finds the
\* created repository
C22_CreateThenLoadFinds ==
    /\ [](CreateRefused /\ CreatedFresh)
    /\ [][OnlyDestroyRemoves]_vars
    /\ []((call.op = "create" /\ call.ok) => LoadFindsCreated)

\* C22 amended: the same, load(name) finding the created repository when
\* the name is pinned or no repository enclosing the existing working
\* directory declares a dependency on it
C22_CreateContract ==
    /\ [](CreateRefused /\ CreatedFresh)
    /\ [][OnlyDestroyRemoves]_vars
    /\ []((/\ call.op = "create" /\ call.ok
           /\ (IsSome(call.name.version) \/ CreatedNotPinned)) => LoadFindsCreated)

\* a create has been refused on a path that exists, and the working
\* directory is one from which the name is not pinned
C22_Witness ==
    /\ call.op = "create"
    /\ call.path \in call.before.dirs
    /\ ~call.ok
    /\ CreatedNotPinned

(***************************************************************************)
(* Further properties of the links, checked under LinkSpec                 *)
(***************************************************************************)
\* C23: remove_dependency(name) on a repository whose dependency map has no
\* entry for name fails with the error of a missing dependency and changes
\* nothing
C23_MissingDependencyRefused ==
    (call.op = "remove_dependency"
     /\ call.name \notin DOMAIN call.before.config.dependencies) =>
        /\ call.err = "ResourceDoesNotHaveThing"
        /\ NothingChanged

\* C25: once remove_link(name) has succeeded, nothing is left at the path
\* that was recorded for name: no directory and no symlink, dangling or not
C25_UnlinkLeavesNothing ==
    (call.op = "remove_link" /\ call.err = "none") =>
        /\ Unwrap(call.path) \notin DOMAIN symlinks
        /\ Unwrap(call.path) \notin dirs

\* the managed block and the symlinks of a consumer are those of its link
\* map: the lines inside the block are the recorded paths, and every symlink
\* inside the consumer is the recorded path of a link
Tracked(self_path, links, igs, lns) ==
    /\ InsideBlock(gitignore_lines(igs, self_path))
          = {to_string_lossy(links[n]) : n \in DOMAIN links}
    /\ \A l \in DOMAIN lns :
          IsPrefix(self_path, l) => \E n \in DOMAIN links : links[n] = l

\* C26: a successful add_link or remove_link on a consumer whose block and
\* symlinks are those of its link map, no link target having been destroyed,
\* leaves them so; a consumer with no links, an empty block and no symlinks
\* is such a consumer, so this holds after any sequence of such calls
C26_LinksStayTracked ==
    (/\ call.op \in {"add_link", "remove_link"}
     /\ call.err = "none"
     /\ \A l \in DOMAIN call.before.symlinks :
           call.before.symlinks[l] \in call.before.dirs
     /\ Tracked(call.self, call.before.config.links, call.before.ignores,
                call.before.symlinks)) =>
        Tracked(call.self, configs[call.self].links, ignores, symlinks)

(***************************************************************************)
(* Properties of the registry commands, checked under Spec                 *)
(***************************************************************************)
\* C24: when the registry answers a fetch or a publish with a status other
\* than 200 the command returns an error, and such a fetch stores nothing
\* under the fetched or the local root
C24_NonSuccessStatusFails ==
    (call.op \in {"fetch", "publish"} /\ call.answered /\ call.status # 200) =>
        /\ ~call.out.ok
        /\ call.op = "fetch" =>
              dirs = call.before.dirs /\ configs = call.before.configs

(***************************************************************************)
(* Further properties of Repository::load, checked under Spec              *)
(***************************************************************************)
\* the versions stored for the requested name, as the directory names that
\* path_segments_as_repository_name wrote for them
StoredVersionNames == Children(LocalFolder) \cup Children(FetchedFolder)

\* C27: a floating request that comes to the enumeration of the version
\* folders (no pin, no unversioned local copy, some version stored) returns
\* a repository, also when a stored version has build metadata and its
\* directory name has '__' for '+'; every directory name is read back as
\* the version it was written for
C27_EnumerationReadsEscapedVersions ==
    (/\ IsSome(req) /\ ~IsSome(Requested.version)
     /\ NotPinned
     /\ ~exists(dirs, LocalUnversioned)
     /\ StoredVersionNames # {}) =>
        /\ Returned
        /\ ReturnedRepository.path[Len(ReturnedRepository.path)] \in StoredVersionNames

\* C28: a repository returned by load(N@V) declares version V in its
\* config, whichever of the three paths it was found at
C28_PinnedLoadDeclaresVersion ==
    (IsSome(req) /\ IsSome(Requested.version) /\ Returned) =>
        ReturnedRepository.config.version = Unwrap(Requested.version)

\* the storage root a stored repository is under
StorageRootOf(path) ==
    IF IsPrefix(fetched_repository_root, path) THEN fetched_repository_root
    ELSE repository_root

\* C29: cmd_delete removes the directory of the resolved repository with what
\* is in it, and of its ancestors only those strictly below the storage root
\* that were left empty; the storage root and everything above it are still
\* there afterwards, also when the repository was the only one stored
C29_DeleteKeepsStorageRoot ==
    (call.op = "delete" /\ call.ok) =>
        /\ \A d \in call.before.dirs \ dirs :
              \/ IsPrefix(call.path, d)
              \/ /\ IsPrefix(d, call.path)
                 /\ IsPrefix(StorageRootOf(call.path), d)
                 /\ d # StorageRootOf(call.path)
                 /\ read_dir(dirs, d) = {}
        /\ dirs \subseteq call.before.dirs
        /\ \A d \in Prefixes(StorageRootOf(call.path)) : d \in dirs

\* C30: load returns for every request: it is entered at most twice, a
\* request with a version once, a request without a version a second time
\* only with the same segments and a version, and what it returns is then
\* what that second call returns
C30_LoadDepthAtMostTwo ==
    (IsSome(req) /\ call.op = "load") =>
        /\ Len(call.calls) \in {1, 2}
        /\ call.calls[1] = Requested
        /\ IsSome(Requested.version) => Len(call.calls) = 1
        /\ Len(call.calls) = 2 =>
              /\ IsSome(call.calls[2].version)
              /\ call.calls[2].segments = Requested.segments
              /\ res = load_versioned(dirs, configs, call.calls[2])

\* a floating request has recursed once, into a pinned request that found
\* a repository
C30_Witness ==
    /\ IsSome(req) /\ call.op = "load"
    /\ ~IsSome(Requested.version)
    /\ Len(call.calls) = 2
    /\ Returned

====
